---- MODULE Spec2Model ----
(***************************************************************************)
(* gotostudy: the domain service layer (UserService, TaskService) wired to *)
(* the PostgreSQL adapters, as internal/app/container.go wires it.         *)
(*                                                                         *)
(* The state is the database and the two package-level variables the       *)
(* adapters load rows into; the services are stateless.  In Spec,          *)
(* ConcSpec, RaceSpec and HttpSpec each repository call is one atomic step *)
(* and a service operation is a sequence of such steps run by a request    *)
(* goroutine; RepoSpec takes the repository calls statement by statement.  *)
(* Every repository call may fail for a reason opaque to the service (the  *)
(* dbOk choice of the step).  The rows of the users table outlive the      *)
(* process, so a run may start on a table that already holds users.        *)
(* Strings are sequences of one-character strings; identifiers are small   *)
(* naturals, Nil standing for uuid.Nil.                                    *)
(***************************************************************************)
EXTENDS Integers, Sequences, FiniteSets, TLC

\* ------------------------------------------------------------------ bounds
MaxUserId ==
  2
MaxTaskId ==
  2
MaxClock ==
  6

\* --------------------------------------------------------------- constants
Nil ==
  0
Procs ==
  {1, 2}
UserIds ==
  1..MaxUserId
TaskIds ==
  1..MaxTaskId

LowerAlpha ==
  {"a","b","c","d","e","f","g","h","i","j","k","l","m",
   "n","o","p","q","r","s","t","u","v","w","x","y","z"}
UpperAlpha ==
  {"A","B","C","D","E","F","G","H","I","J","K","L","M",
   "N","O","P","Q","R","S","T","U","V","W","X","Y","Z"}
Digits ==
  {"0","1","2","3","4","5","6","7","8","9"}

\* inputs the requests are drawn from
Usernames ==
  { <<"u","1">>, <<"u","2">> }
ValidEmails ==
  { <<"a","@","b",".","i","o">>, <<"c","@","b",".","i","o">> }
BadEmails ==
  { <<"a","b">>, <<"a","@","b",".","c">> }
Emails ==
  ValidEmails \cup BadEmails
Titles ==
  { <<"t","1">>, <<"t","2">> }
Descriptions ==
  { <<"d">> }

\* users, tasks      the rows of the two tables, keyed by primary key
\* constraints       whether the tables carry the constraints the tags of the
\*                   postgres models ask for (unique username and email, tasks
\*                   deleted with their user): the migration package migrates
\*                   the tagged models, InitDB and the container the untagged
\*                   domain structs. Either way User.Tasks []Task makes the ORM
\*                   create the foreign key tasks.user_id -> users.id; without
\*                   the tag it has no ON DELETE action
\* clock             time.Now(); every reading advances it
\* nextUserId/TaskId the next identifier uuid.New() hands out
\* usr_model         the package-level variable model of the user repository:
\*                   FindByID, Update, UpdateFields and Delete load into it
\* tsk_task          the package-level variable task of the task repository:
\*                   FindTaskByID, Update, UpdateFields and Delete load into it
\* pc, call, ret     per request goroutine: position, arguments and locals, result
VARIABLES users, tasks, constraints, clock, nextUserId, nextTaskId,
          usr_model, tsk_task, pc, call, ret

vars ==
  <<users, tasks, constraints, clock, nextUserId, nextTaskId,
    usr_model, tsk_task, pc, call, ret>>

\* ------------------------------------------------------------ domain types
\* the zero value of domain.User
NoUser ==
  [id |-> Nil, username |-> <<>>, email |-> <<>>, createdAt |-> 0, updatedAt |-> 0]

\* the zero value of domain.Task
NoTask ==
  [id |-> Nil, title |-> <<>>, description |-> <<>>, completed |-> FALSE,
   createdAt |-> 0, updatedAt |-> 0, userId |-> Nil]

\* a row of the users table as a domain.User
UserOf(us, id) ==
  [id |-> id, username |-> us[id].username, email |-> us[id].email,
   createdAt |-> us[id].createdAt, updatedAt |-> us[id].updatedAt]

\* a row of the tasks table as a domain.Task
TaskOf(ts, id) ==
  [id |-> id, title |-> ts[id].title, description |-> ts[id].description,
   completed |-> ts[id].completed, createdAt |-> ts[id].createdAt,
   updatedAt |-> ts[id].updatedAt, userId |-> ts[id].userId]

Min(S) ==
  CHOOSE x \in S : \A y \in S : x <= y

\* --------------------------------------------------------- internal/utils
\* regexp ^[a-zA-Z0-9._%+-]+@[a-zA-Z0-9.-]+\.[a-zA-Z]{2,}$
IsLocalChar(c) ==
  c \in LowerAlpha \cup UpperAlpha \cup Digits \cup {".", "_", "%", "+", "-"}
IsDomainChar(c) ==
  c \in LowerAlpha \cup UpperAlpha \cup Digits \cup {".", "-"}
IsTldChar(c) ==
  c \in LowerAlpha \cup UpperAlpha

\* the expression with {1,} for {2,}: a one-letter top-level domain passes
emailRegex_OneLetterTld(s) ==
  \E i \in 1..Len(s), j \in 1..Len(s) :
    /\ i >= 2 /\ s[i] = "@"
    /\ j >= i + 2 /\ s[j] = "."
    /\ Len(s) >= j + 1
    /\ \A k \in 1..(i-1) : IsLocalChar(s[k])
    /\ \A k \in (i+1)..(j-1) : IsDomainChar(s[k])
    /\ \A k \in (j+1)..Len(s) : IsTldChar(s[k])

emailRegex(s) ==
  \E i \in 1..Len(s), j \in 1..Len(s) :
    /\ i >= 2 /\ s[i] = "@"
    /\ j >= i + 2 /\ s[j] = "."
    /\ Len(s) >= j + 2
    /\ \A k \in 1..(i-1) : IsLocalChar(s[k])
    /\ \A k \in (i+1)..(j-1) : IsDomainChar(s[k])
    /\ \A k \in (j+1)..Len(s) : IsTldChar(s[k])

\* IsEmailValid returns core.ErrInvalidEmail or nil
IsEmailValid(email) ==
  IF ~emailRegex(email) THEN "ErrInvalidEmail" ELSE "nil"

\* ------------------------------------------------------------------ ORM
\* DB.Where("id = ?", id).First(&dest) finds a row: when the primary key of
\* dest is set (dest holds the row an earlier call loaded), the ORM adds it to
\* the conditions of the query, so only that row can be found
First(tbl, dest, id) ==
  id \in DOMAIN tbl /\ dest.id \in {Nil, id}

\* --------------------------------------------- PostgresUserRepository
\* DB.Where("email = ?", email).First(&model): the row with the least primary key
usr_FindByEmail(us, email, dbOk) ==
  LET hits == {id \in DOMAIN us : us[id].email = email} IN
  IF ~dbOk THEN [err |-> "db error", user |-> NoUser]
  ELSE IF hits = {} THEN [err |-> "gorm.ErrRecordNotFound", user |-> NoUser]
  ELSE [err |-> "nil",
        user |-> [NoUser EXCEPT !.id = Min(hits),
                                !.username = us[Min(hits)].username,
                                !.email = us[Min(hits)].email]]

\* FindByID with the error of the query returned as it is: only a missing row is
\* core.ErrUserNotFound
usr_FindByID_RawError(us, dest, id, dbOk) ==
  IF ~dbOk THEN [err |-> "db error", user |-> NoUser, dest |-> dest]
  ELSE IF ~First(us, dest, id)
  THEN [err |-> "ErrUserNotFound", user |-> NoUser, dest |-> dest]
  ELSE [err |-> "nil", user |-> UserOf(us, id), dest |-> UserOf(us, id)]

\* First by id into the package-level model (dest), the user built from it;
\* every failure of the query is reported as core.ErrUserNotFound
usr_FindByID(us, dest, id, dbOk) ==
  IF ~dbOk \/ ~First(us, dest, id)
  THEN [err |-> "ErrUserNotFound", user |-> NoUser, dest |-> dest]
  ELSE [err |-> "nil", user |-> UserOf(us, id), dest |-> UserOf(us, id)]

\* the unique indexes on username and email, when the table has them
UniqueViolation(us, uq, id, username, email) ==
  uq /\ \E o \in DOMAIN us \ {id} :
          us[o].username = username \/ us[o].email = email

\* DB.Create(&model): the timestamps the service set are kept
usr_Save(us, uq, user, dbOk) ==
  IF ~dbOk \/ user.id \in DOMAIN us
     \/ UniqueViolation(us, uq, user.id, user.username, user.email)
  THEN [err |-> "db error", users |-> us]
  ELSE [err |-> "nil",
        users |-> [id \in DOMAIN us \cup {user.id} |->
                     IF id = user.id
                     THEN [username |-> user.username, email |-> user.email,
                           createdAt |-> user.createdAt, updatedAt |-> user.updatedAt]
                     ELSE us[id]]]

\* Update with the row written as the replacement gives it, created_at included
usr_Update_RowRebuilt(us, uq, dest, id, user, now, dbOk) ==
  IF ~dbOk THEN [err |-> "db error", users |-> us, dest |-> dest]
  ELSE IF ~First(us, dest, id)
  THEN [err |-> "gorm.ErrRecordNotFound", users |-> us, dest |-> dest]
  ELSE LET model == [UserOf(us, id) EXCEPT !.username = user.username,
                                           !.email = user.email,
                                           !.createdAt = user.createdAt,
                                           !.updatedAt = now]
       IN IF UniqueViolation(us, uq, id, user.username, user.email)
          THEN [err |-> "db error", users |-> us, dest |-> model]
          ELSE [err |-> "nil",
                users |-> [us EXCEPT ![id] = [username |-> model.username,
                                              email |-> model.email,
                                              createdAt |-> model.createdAt,
                                              updatedAt |-> model.updatedAt]],
                dest |-> model]

\* First by id into the package-level model (dest), then DB.Save(&model):
\* username and email replaced, created_at kept, updated_at set by the ORM
\* (autoUpdateTime) at the time of the write
usr_Update(us, uq, dest, id, user, now, dbOk) ==
  IF ~dbOk THEN [err |-> "db error", users |-> us, dest |-> dest]
  ELSE IF ~First(us, dest, id)
  THEN [err |-> "gorm.ErrRecordNotFound", users |-> us, dest |-> dest]
  ELSE LET model == [UserOf(us, id) EXCEPT !.username = user.username,
                                           !.email = user.email,
                                           !.updatedAt = now]
       IN IF UniqueViolation(us, uq, id, user.username, user.email)
          THEN [err |-> "db error", users |-> us, dest |-> model]
          ELSE [err |-> "nil",
                users |-> [us EXCEPT ![id] = [username |-> model.username,
                                              email |-> model.email,
                                              createdAt |-> model.createdAt,
                                              updatedAt |-> model.updatedAt]],
                dest |-> model]

\* Delete on tables without the foreign key: the tasks of the user stay
usr_Delete_NoForeignKey(us, ts, cascade, dest, id, dbOk) ==
  IF ~dbOk THEN [err |-> "db error", users |-> us, tasks |-> ts, dest |-> dest]
  ELSE IF ~First(us, dest, id)
  THEN [err |-> "gorm.ErrRecordNotFound", users |-> us, tasks |-> ts, dest |-> dest]
  ELSE [err |-> "nil",
        users |-> [o \in DOMAIN us \ {id} |-> us[o]],
        tasks |-> ts,
        dest |-> UserOf(us, id)]

\* First by id into the package-level model (dest), then DB.Delete(&model):
\* with ON DELETE CASCADE the tasks of the user go with it, without it the
\* foreign key refuses the delete of a user that has tasks
usr_Delete(us, ts, cascade, dest, id, dbOk) ==
  IF ~dbOk THEN [err |-> "db error", users |-> us, tasks |-> ts, dest |-> dest]
  ELSE IF ~First(us, dest, id)
  THEN [err |-> "gorm.ErrRecordNotFound", users |-> us, tasks |-> ts, dest |-> dest]
  ELSE IF ~cascade /\ \E x \in DOMAIN ts : ts[x].userId = id
  THEN [err |-> "db error", users |-> us, tasks |-> ts, dest |-> UserOf(us, id)]
  ELSE [err |-> "nil",
        users |-> [o \in DOMAIN us \ {id} |-> us[o]],
        tasks |-> [t \in {x \in DOMAIN ts : ts[x].userId # id} |-> ts[t]],
        dest |-> UserOf(us, id)]

\* a value of a map[string]any payload: a string, or the time.Time the service adds
StrVal(s) ==
  [isStr |-> TRUE, str |-> s, time |-> 0]
TimeVal(t) ==
  [isStr |-> FALSE, str |-> <<>>, time |-> t]

validFields ==
  {"username", "email"}

\* the orders in which a range over a map with key set S may visit the keys
Orders(S) ==
  {o \in [1..Cardinality(S) -> S] : \A i, j \in 1..Cardinality(S) : i # j => o[i] # o[j]}

\* hasValidFields ranges over the map in the order given: the first key outside
\* validFields ends it with an error, the first valid key holding a non-empty
\* string is written to the row (key) and ends it with true
RECURSIVE hasValidFields(_, _)
hasValidFields(fields, order) ==
  IF order = <<>>
  THEN [ok |-> FALSE, err |-> "no valid fields provided", key |-> ""]
  ELSE IF Head(order) \notin validFields
  THEN [ok |-> FALSE, err |-> "invalid field", key |-> ""]
  ELSE IF fields[Head(order)].isStr /\ fields[Head(order)].str # <<>>
  THEN [ok |-> TRUE, err |-> "nil", key |-> Head(order)]
  ELSE hasValidFields(fields, Tail(order))

\* First by id into the package-level model (dest), then hasValidFields, whose
\* DB.Model(&model).Update(key, value) sets the key and updated_at in model and
\* in the row; the result of that UPDATE is not looked at, so a refused write
\* still returns the changed model
usr_UpdateFields(us, uq, dest, id, fields, order, now, dbOk) ==
  IF ~dbOk THEN [err |-> "db error", users |-> us, user |-> NoUser, dest |-> dest]
  ELSE IF ~First(us, dest, id)
  THEN [err |-> "gorm.ErrRecordNotFound", users |-> us, user |-> NoUser, dest |-> dest]
  ELSE LET h == hasValidFields(fields, order) IN
       IF h.err # "nil"
       THEN [err |-> h.err, users |-> us, user |-> NoUser, dest |-> UserOf(us, id)]
       ELSE LET model == [UserOf(us, id) EXCEPT ![h.key] = fields[h.key].str,
                                                 !.updatedAt = now]
            IN [err |-> "nil",
                users |-> IF UniqueViolation(us, uq, id, model.username, model.email)
                          THEN us
                          ELSE [us EXCEPT ![id] = [username |-> model.username,
                                                   email |-> model.email,
                                                   createdAt |-> model.createdAt,
                                                   updatedAt |-> model.updatedAt]],
                user |-> model,
                dest |-> model]

\* --------------------------------------------- PostgresTaskRepository
\* DB.Create(&model): the primary key and the foreign key on user_id refuse
\* the row when the id is taken or no user has the user_id
tsk_Save(ts, us, task, dbOk) ==
  IF ~dbOk \/ task.id \in DOMAIN ts \/ task.userId \notin DOMAIN us
  THEN [err |-> "db error", tasks |-> ts]
  ELSE [err |-> "nil",
        tasks |-> [t \in DOMAIN ts \cup {task.id} |->
                     IF t = task.id
                     THEN [title |-> task.title, description |-> task.description,
                           completed |-> task.completed, createdAt |-> task.createdAt,
                           updatedAt |-> task.updatedAt, userId |-> task.userId]
                     ELSE ts[t]]]

\* Find(&tasks) loads the rows into the package-level slice; the local slice
\* declared next shadows it: it has one nil *domain.Task per row found, and the
\* loop ranges over the local slice, so its first iteration reads t.ID through
\* a nil pointer
tsk_FindUserTasks(ts, userID, dbOk) ==
  LET rows  == {t \in DOMAIN ts : ts[t].userId = userID}
      local == [i \in 1..Cardinality(rows) |-> NoTask]
  IN IF ~dbOk THEN [err |-> "db error", tasks |-> {}]
     ELSE IF Len(local) > 0 THEN [err |-> "panic", tasks |-> {}]
     ELSE [err |-> "nil", tasks |-> {local[i] : i \in 1..Len(local)}]

\* First by id into the package-level task (dest), the task built from it
tsk_FindTaskByID(ts, dest, taskID, dbOk) ==
  IF ~dbOk THEN [err |-> "db error", task |-> NoTask, dest |-> dest]
  ELSE IF ~First(ts, dest, taskID)
  THEN [err |-> "gorm.ErrRecordNotFound", task |-> NoTask, dest |-> dest]
  ELSE [err |-> "nil", task |-> TaskOf(ts, taskID), dest |-> TaskOf(ts, taskID)]

\* Update with the row built anew from tsk, as Save builds it: created_at and
\* user_id are what tsk carries
tsk_Update_RowRebuilt(ts, dest, taskID, tsk, now, dbOk) ==
  IF ~dbOk THEN [err |-> "db error", tasks |-> ts, dest |-> dest]
  ELSE IF ~First(ts, dest, taskID)
  THEN [err |-> "gorm.ErrRecordNotFound", tasks |-> ts, dest |-> dest]
  ELSE [err |-> "nil",
        tasks |-> [ts EXCEPT ![taskID] = [title |-> tsk.title,
                                          description |-> tsk.description,
                                          completed |-> tsk.completed,
                                          createdAt |-> now,
                                          updatedAt |-> now,
                                          userId |-> tsk.userId]],
        dest |-> [id |-> taskID, title |-> tsk.title,
                  description |-> tsk.description, completed |-> tsk.completed,
                  createdAt |-> now, updatedAt |-> now, userId |-> tsk.userId]]

\* Update with the write keeping the updated_at it is given (no autoUpdateTime)
tsk_Update_NoAutoUpdateTime(ts, dest, taskID, tsk, now, dbOk) ==
  IF ~dbOk THEN [err |-> "db error", tasks |-> ts, dest |-> dest]
  ELSE IF ~First(ts, dest, taskID)
  THEN [err |-> "gorm.ErrRecordNotFound", tasks |-> ts, dest |-> dest]
  ELSE [err |-> "nil",
        tasks |-> [ts EXCEPT ![taskID] = [ts[taskID] EXCEPT
                                            !.title = tsk.title,
                                            !.description = tsk.description,
                                            !.completed = tsk.completed,
                                            !.updatedAt = tsk.updatedAt]],
        dest |-> [TaskOf(ts, taskID) EXCEPT !.title = tsk.title,
                                            !.description = tsk.description,
                                            !.completed = tsk.completed,
                                            !.updatedAt = tsk.updatedAt]]

\* First by id into the package-level task (dest), then title, description,
\* completed and updated_at are copied from tsk and DB.Save(&task) writes the
\* row: created_at and user_id are the ones loaded, updated_at is set by the
\* ORM (autoUpdateTime) at the write
tsk_Update(ts, dest, taskID, tsk, now, dbOk) ==
  IF ~dbOk THEN [err |-> "db error", tasks |-> ts, dest |-> dest]
  ELSE IF ~First(ts, dest, taskID)
  THEN [err |-> "gorm.ErrRecordNotFound", tasks |-> ts, dest |-> dest]
  ELSE [err |-> "nil",
        tasks |-> [ts EXCEPT ![taskID] = [ts[taskID] EXCEPT
                                            !.title = tsk.title,
                                            !.description = tsk.description,
                                            !.completed = tsk.completed,
                                            !.updatedAt = now]],
        dest |-> [TaskOf(ts, taskID) EXCEPT !.title = tsk.title,
                                            !.description = tsk.description,
                                            !.completed = tsk.completed,
                                            !.updatedAt = now]]

\* First by id into the package-level task (dest), then DB.Delete(&task)
tsk_Delete(ts, dest, taskID, dbOk) ==
  IF ~dbOk THEN [err |-> "db error", tasks |-> ts, dest |-> dest]
  ELSE IF ~First(ts, dest, taskID)
  THEN [err |-> "gorm.ErrRecordNotFound", tasks |-> ts, dest |-> dest]
  ELSE [err |-> "nil", tasks |-> [t \in DOMAIN ts \ {taskID} |-> ts[t]],
        dest |-> TaskOf(ts, taskID)]

\* ------------------------------------------------------- internal/utils
\* the check with the comparison of the holder's id to excludeID inverted: the
\* email counts as in use only when the user being updated holds it
IsEmailInUse_ComparisonInverted(us, email, excludeID, dbOk) ==
  LET r == usr_FindByEmail(us, email, dbOk) IN
  IF r.err # "nil"
  THEN IF r.err = "ErrEmailAlreadyExists" THEN [inUse |-> FALSE, err |-> "nil"]
       ELSE IF r.err = "ErrUserNotFound" THEN [inUse |-> FALSE, err |-> "nil"]
       ELSE [inUse |-> FALSE, err |-> r.err]
  ELSE IF excludeID # Nil /\ r.user.id = excludeID
       THEN [inUse |-> TRUE, err |-> "nil"]
       ELSE [inUse |-> FALSE, err |-> "nil"]

\* the check with the comparison of the holder's id to excludeID left out: any
\* holder counts as the user being updated
IsEmailInUse_NoIdComparison(us, email, excludeID, dbOk) ==
  LET r == usr_FindByEmail(us, email, dbOk) IN
  IF r.err # "nil"
  THEN IF r.err = "ErrEmailAlreadyExists" THEN [inUse |-> FALSE, err |-> "nil"]
       ELSE IF r.err = "ErrUserNotFound" THEN [inUse |-> FALSE, err |-> "nil"]
       ELSE [inUse |-> FALSE, err |-> r.err]
  ELSE IF excludeID # Nil
       THEN [inUse |-> FALSE, err |-> "nil"]
       ELSE [inUse |-> TRUE, err |-> "nil"]

IsEmailInUse(us, email, excludeID, dbOk) ==
  LET r == usr_FindByEmail(us, email, dbOk) IN
  IF r.err # "nil"
  THEN IF r.err = "ErrEmailAlreadyExists" THEN [inUse |-> FALSE, err |-> "nil"]
       ELSE IF r.err = "ErrUserNotFound" THEN [inUse |-> FALSE, err |-> "nil"]
       ELSE [inUse |-> FALSE, err |-> r.err]
  ELSE IF excludeID # Nil /\ r.user.id = excludeID
       THEN [inUse |-> FALSE, err |-> "nil"]
       ELSE [inUse |-> TRUE, err |-> "nil"]

\* ------------------------------------------------------ request goroutines
InputKeys ==
  {"username", "email", "role"}
FieldValues(k) ==
  IF k = "username" THEN {<<"u","2">>, <<>>}
  ELSE IF k = "email" THEN ValidEmails \cup {<<"a","b">>}
  ELSE {<<"a","d","m","i","n">>}
AllFieldValues ==
  UNION {FieldValues(k) : k \in InputKeys}

\* the field maps a request may carry: any subset of the keys, string values
FieldMaps ==
  UNION { { [k \in S |-> StrVal(f[k])] :
              f \in {g \in [S -> AllFieldValues] : \A k \in S : g[k] \in FieldValues(k)} }
          : S \in SUBSET InputKeys }

ArgUserIds ==
  UserIds \cup {Nil}
ArgTaskIds ==
  TaskIds \cup {Nil}

\* the replacements an UpdateTask may carry: a title and a completed flag, the
\* other fields holding values that are not those of the stored task
Replacements ==
  { [NoTask EXCEPT !.id = Nil, !.userId = Nil, !.createdAt = MaxClock,
                   !.updatedAt = 0, !.title = title, !.description = <<"r">>,
                   !.completed = completed] :
      title \in Titles, completed \in BOOLEAN }

NewCall(op) ==
  [op |-> op, id |-> Nil, user |-> NoUser, fields |-> <<>>, task |-> NoTask,
   taskId |-> Nil, existingTask |-> NoTask, reads |-> 0,
   writes |-> 0, preUsers |-> users, preTasks |-> tasks,
   handler |-> "none", params |-> <<>>, uuids |-> <<>>,
   pk |-> Nil, acted |-> Nil]

NoRet ==
  [err |-> "none", user |-> NoUser, tasks |-> {}, task |-> NoTask]

\* whether the database answers a call: either way when the call is made
Outcomes(called) ==
  IF called THEN BOOLEAN ELSE {TRUE}

Ready(p) ==
  pc[p] = "idle"

\* readings of the clock that operations under way will still make
PendingTicks ==
  Cardinality({q \in Procs : pc[q] \in {"UpdateUser_Update", "UpdateUserFields_UpdateFields",
                                        "UpdateTask_taskExists", "UpdateTask_Update"}})

TimeLeft ==
  clock + 2 + PendingTicks <= MaxClock

\* room on the clock for an operation whose only reading is the ORM's at the write
TimeLeftForWrite ==
  clock + 1 + PendingTicks <= MaxClock

Return(p, c, err, user, tks) ==
  /\ pc' = [pc EXCEPT ![p] = "done"]
  /\ call' = [call EXCEPT ![p] = c]
  /\ ret' = [ret EXCEPT ![p] = [err |-> err, user |-> user, tasks |-> tks,
                                task |-> NoTask]]

ReturnTask(p, c, err, task) ==
  /\ pc' = [pc EXCEPT ![p] = "done"]
  /\ call' = [call EXCEPT ![p] = c]
  /\ ret' = [ret EXCEPT ![p] = [err |-> err, user |-> NoUser, tasks |-> {},
                                task |-> task]]

Goto(p, c, label) ==
  /\ pc' = [pc EXCEPT ![p] = label]
  /\ call' = [call EXCEPT ![p] = c]
  /\ ret' = [ret EXCEPT ![p] = NoRet]

\* ----------------------------------------------------------- UserService
\* RegisterUser up to and including the uniqueness check (one FindByEmail)
RegisterUser(p) ==
  /\ Ready(p) /\ TimeLeft
  /\ \E username \in Usernames, email \in Emails :
     \E dbOk \in Outcomes(IsEmailValid(email) = "nil") :
       LET c == [NewCall("RegisterUser") EXCEPT !.user.username = username,
                                                !.user.email = email]
           emailInUse == IsEmailInUse(users, email, Nil, dbOk)
       IN IF IsEmailValid(email) # "nil"
          THEN /\ Return(p, c, IsEmailValid(email), NoUser, {})
               /\ UNCHANGED <<clock, nextUserId>>
          ELSE IF emailInUse.err # "nil"
          THEN /\ Return(p, c, emailInUse.err, NoUser, {})
               /\ UNCHANGED <<clock, nextUserId>>
          ELSE IF emailInUse.inUse
          THEN /\ Return(p, c, "ErrEmailAlreadyExists", NoUser, {})
               /\ UNCHANGED <<clock, nextUserId>>
          ELSE /\ nextUserId <= MaxUserId
               /\ Goto(p, [c EXCEPT !.user.id = nextUserId,
                                    !.user.createdAt = clock,
                                    !.user.updatedAt = clock + 1],
                       "RegisterUser_Save")
               /\ clock' = clock + 2
               /\ nextUserId' = nextUserId + 1
  /\ UNCHANGED <<users, tasks, constraints, nextTaskId, usr_model, tsk_task>>

\* RegisterUser from u.usr.Save on
RegisterUser_Save(p) ==
  /\ pc[p] = "RegisterUser_Save"
  /\ \E dbOk \in BOOLEAN :
       LET r == usr_Save(users, constraints, call[p].user, dbOk)
           c == [call[p] EXCEPT !.writes = @ + 1]
       IN /\ users' = r.users
          /\ IF r.err # "nil"
             THEN Return(p, c, "ErrSaveUser", NoUser, {})
             ELSE Return(p, c, "nil", call[p].user, {})
  /\ UNCHANGED <<tasks, constraints, clock, nextUserId, nextTaskId, usr_model, tsk_task>>

\* GetUserByID: one repository call; only an error that is ErrUserNotFound
\* is returned, with any other the user FindByID gave is returned without error
GetUserByID(p) ==
  /\ Ready(p)
  /\ \E id \in ArgUserIds, dbOk \in BOOLEAN :
       LET r == usr_FindByID(users, usr_model, id, dbOk)
           c == [NewCall("GetUserByID") EXCEPT !.id = id]
       IN /\ usr_model' = r.dest
          /\ IF r.err = "ErrUserNotFound"
             THEN Return(p, c, r.err, NoUser, {})
             ELSE Return(p, c, "nil", r.user, {})
  /\ UNCHANGED <<users, tasks, constraints, clock, nextUserId, nextTaskId, tsk_task>>

\* UpdateUser up to and including the uniqueness check; the replacement carries
\* a createdAt that is not the stored one
UpdateUser(p) ==
  /\ Ready(p) /\ TimeLeft
  /\ \E id \in ArgUserIds, username \in Usernames, email \in Emails :
     \E dbOk \in Outcomes(IsEmailValid(email) = "nil") :
       LET c == [NewCall("UpdateUser") EXCEPT !.id = id,
                                              !.user.username = username,
                                              !.user.email = email,
                                              !.user.createdAt = MaxClock]
           emailInUse == IsEmailInUse(users, email, id, dbOk)
       IN IF IsEmailValid(email) # "nil"
          THEN Return(p, c, "ErrInvalidEmail", NoUser, {}) /\ UNCHANGED clock
          ELSE IF emailInUse.err # "nil"
          THEN Return(p, c, emailInUse.err, NoUser, {}) /\ UNCHANGED clock
          ELSE IF emailInUse.inUse
          THEN Return(p, c, "ErrEmailAlreadyExists", NoUser, {}) /\ UNCHANGED clock
          ELSE /\ Goto(p, [c EXCEPT !.user.id = id, !.user.updatedAt = clock],
                       "UpdateUser_Update")
               /\ clock' = clock + 1
  /\ UNCHANGED <<users, tasks, constraints, nextUserId, nextTaskId, usr_model, tsk_task>>

\* UpdateUser from u.usr.Update on
UpdateUser_Update(p) ==
  /\ pc[p] = "UpdateUser_Update"
  /\ \E dbOk \in BOOLEAN :
       LET r == usr_Update(users, constraints, usr_model, call[p].id, call[p].user,
                           clock, dbOk)
           c == [call[p] EXCEPT !.writes = @ + 1]
       IN /\ users' = r.users
          /\ usr_model' = r.dest
          /\ clock' = IF r.err = "nil" THEN clock + 1 ELSE clock
          /\ IF r.err # "nil"
             THEN Return(p, c, "ErrUpdateUser", NoUser, {})
             ELSE Return(p, c, "nil", NoUser, {})
  /\ UNCHANGED <<tasks, constraints, nextUserId, nextTaskId, tsk_task>>

\* UpdateUserFields up to and including the uniqueness check; the type
\* assertion fields["email"].(string) panics when the key is absent
UpdateUserFields(p) ==
  /\ Ready(p) /\ TimeLeft
  /\ \E id \in ArgUserIds, fields \in FieldMaps :
     \E dbOk \in Outcomes("email" \in DOMAIN fields /\ IsEmailValid(fields["email"].str) = "nil") :
       LET c == [NewCall("UpdateUserFields") EXCEPT !.id = id, !.fields = fields]
           email == fields["email"].str
           emailInUse == IsEmailInUse(users, email, id, dbOk)
       IN IF "email" \notin DOMAIN fields \/ ~fields["email"].isStr
          THEN Return(p, c, "panic", NoUser, {}) /\ UNCHANGED clock
          ELSE IF IsEmailValid(email) # "nil"
          THEN Return(p, c, "ErrInvalidEmail", NoUser, {}) /\ UNCHANGED clock
          ELSE IF emailInUse.err # "nil"
          THEN Return(p, c, "ErrEmailAlreadyExists", NoUser, {}) /\ UNCHANGED clock
          ELSE IF emailInUse.inUse
          THEN Return(p, c, "ErrEmailAlreadyExists", NoUser, {}) /\ UNCHANGED clock
          ELSE /\ Goto(p, [c EXCEPT !.fields =
                              [k \in DOMAIN fields \cup {"updated_at"} |->
                                 IF k = "updated_at" THEN TimeVal(clock) ELSE fields[k]]],
                       "UpdateUserFields_UpdateFields")
               /\ clock' = clock + 1
  /\ UNCHANGED <<users, tasks, constraints, nextUserId, nextTaskId, usr_model, tsk_task>>

\* UpdateUserFields from u.usr.UpdateFields on
UpdateUserFields_UpdateFields(p) ==
  /\ pc[p] = "UpdateUserFields_UpdateFields"
  /\ \E order \in Orders(DOMAIN call[p].fields), dbOk \in BOOLEAN :
       LET r == usr_UpdateFields(users, constraints, usr_model, call[p].id,
                                 call[p].fields, order, clock, dbOk)
           c == [call[p] EXCEPT !.writes = @ + 1]
       IN /\ users' = r.users
          /\ usr_model' = r.dest
          /\ clock' = IF r.err = "nil" THEN clock + 1 ELSE clock
          /\ IF r.err # "nil"
             THEN Return(p, c, "ErrUpdateUser", NoUser, {})
             ELSE Return(p, c, "nil", r.user, {})
  /\ UNCHANGED <<tasks, constraints, nextUserId, nextTaskId, tsk_task>>

\* DeleteUser: one repository call
DeleteUser(p) ==
  /\ Ready(p)
  /\ \E id \in ArgUserIds, dbOk \in BOOLEAN :
       LET r == usr_Delete(users, tasks, constraints, usr_model, id, dbOk)
           c == [NewCall("DeleteUser") EXCEPT !.id = id, !.writes = 1]
       IN /\ users' = r.users
          /\ tasks' = r.tasks
          /\ usr_model' = r.dest
          /\ IF r.err # "nil"
             THEN Return(p, c, "ErrDeleteUser", NoUser, {})
             ELSE Return(p, c, "nil", NoUser, {})
  /\ UNCHANGED <<constraints, clock, nextUserId, nextTaskId, tsk_task>>

\* ----------------------------------------------------------- TaskService
\* userExists with the result of FindByID not looked at
userExists_ResultDropped(us, dest, userID, dbOk) ==
  TRUE

\* userExists: false on any error of FindByID (the adapter never returns a
\* nil user without an error)
userExists(us, dest, userID, dbOk) ==
  IF usr_FindByID(us, dest, userID, dbOk).err # "nil" THEN FALSE ELSE TRUE

\* CreateTask up to and including the userExists check
CreateTask(p) ==
  /\ Ready(p) /\ TimeLeft /\ nextTaskId <= MaxTaskId
  /\ \E userID \in ArgUserIds, title \in Titles, description \in Descriptions,
        completed \in BOOLEAN, dbOk \in BOOLEAN :
       LET c == [NewCall("CreateTask") EXCEPT !.id = userID,
                                              !.task.title = title,
                                              !.task.description = description,
                                              !.task.completed = completed]
       IN /\ usr_model' = usr_FindByID(users, usr_model, userID, dbOk).dest
          /\ IF ~userExists(users, usr_model, userID, dbOk)
             THEN /\ Return(p, c, "ErrUserNotFound", NoUser, {})
                  /\ UNCHANGED <<clock, nextTaskId>>
             ELSE /\ Goto(p, [c EXCEPT !.task.id = nextTaskId,
                                       !.task.userId = userID,
                                       !.task.createdAt = clock,
                                       !.task.updatedAt = clock + 1],
                          "CreateTask_Save")
                  /\ clock' = clock + 2
                  /\ nextTaskId' = nextTaskId + 1
  /\ UNCHANGED <<users, tasks, constraints, nextUserId, tsk_task>>

\* CreateTask from t.tsk.Save on
CreateTask_Save(p) ==
  /\ pc[p] = "CreateTask_Save"
  /\ \E dbOk \in BOOLEAN :
       LET r == tsk_Save(tasks, users, call[p].task, dbOk)
           c == [call[p] EXCEPT !.writes = @ + 1]
       IN /\ tasks' = r.tasks
          /\ Return(p, c, r.err, NoUser, {})
  /\ UNCHANGED <<users, constraints, clock, nextUserId, nextTaskId, usr_model, tsk_task>>

\* FindUserTasks up to and including the userExists check
FindUserTasks(p) ==
  /\ Ready(p)
  /\ \E userID \in ArgUserIds, dbOk \in BOOLEAN :
       LET c == [NewCall("FindUserTasks") EXCEPT !.id = userID]
       IN /\ usr_model' = usr_FindByID(users, usr_model, userID, dbOk).dest
          /\ IF ~userExists(users, usr_model, userID, dbOk)
             THEN Return(p, c, "ErrUserNotFound", NoUser, {})
             ELSE Goto(p, c, "FindUserTasks_FindUserTasks")
  /\ UNCHANGED <<users, tasks, constraints, clock, nextUserId, nextTaskId, tsk_task>>

\* FindUserTasks from t.tsk.FindUserTasks on
FindUserTasks_FindUserTasks(p) ==
  /\ pc[p] = "FindUserTasks_FindUserTasks"
  /\ \E dbOk \in BOOLEAN :
       LET r == tsk_FindUserTasks(tasks, call[p].id, dbOk)
       IN IF r.err # "nil"
          THEN Return(p, call[p], r.err, NoUser, {})
          ELSE IF Cardinality(r.tasks) = 0
          THEN Return(p, call[p], "ErrNoTasksFound", NoUser, {})
          ELSE Return(p, call[p], "nil", NoUser, r.tasks)
  /\ UNCHANGED <<users, tasks, constraints, clock, nextUserId, nextTaskId,
                 usr_model, tsk_task>>

\* taskExists: the task FindTaskByID gives, or its error; the user id is passed
\* on to a repository method that takes none
taskExists(ts, dest, userID, taskID, dbOk) ==
  LET r == tsk_FindTaskByID(ts, dest, taskID, dbOk) IN
  IF r.err # "nil" THEN [err |-> r.err, task |-> NoTask, dest |-> r.dest]
  ELSE IF r.task = NoTask
  THEN [err |-> "ErrTaskNotFound", task |-> NoTask, dest |-> r.dest]
  ELSE [err |-> "nil", task |-> r.task, dest |-> r.dest]

\* FindTaskByID: one repository call
FindTaskByID(p) ==
  /\ Ready(p)
  /\ \E userID \in ArgUserIds, taskID \in ArgTaskIds, dbOk \in BOOLEAN :
       LET r == taskExists(tasks, tsk_task, userID, taskID, dbOk)
           c == [NewCall("FindTaskByID") EXCEPT !.id = userID, !.taskId = taskID,
                                                !.reads = 1]
       IN /\ tsk_task' = r.dest
          /\ ReturnTask(p, c, r.err, r.task)
  /\ UNCHANGED <<users, tasks, constraints, clock, nextUserId, nextTaskId, usr_model>>

\* UpdateTask up to and including the userExists check
UpdateTask(p) ==
  /\ Ready(p) /\ TimeLeftForWrite
  /\ \E userID \in ArgUserIds, taskID \in ArgTaskIds, task \in Replacements :
     \E dbOk \in Outcomes(taskID # Nil) :
       LET c == [NewCall("UpdateTask") EXCEPT !.id = userID, !.taskId = taskID,
                                              !.task = task]
       IN IF taskID = Nil
          THEN /\ Return(p, c, "ErrInvalidTaskID", NoUser, {})
               /\ UNCHANGED usr_model
          ELSE /\ usr_model' = usr_FindByID(users, usr_model, userID, dbOk).dest
               /\ IF ~userExists(users, usr_model, userID, dbOk)
                  THEN Return(p, c, "ErrUserNotFound", NoUser, {})
                  ELSE Goto(p, c, "UpdateTask_taskExists")
  /\ UNCHANGED <<users, tasks, constraints, clock, nextUserId, nextTaskId, tsk_task>>

\* UpdateTask: the taskExists check, then title, description and completed of
\* the task found are overwritten with those of the replacement
UpdateTask_taskExists(p) ==
  /\ pc[p] = "UpdateTask_taskExists"
  /\ \E dbOk \in BOOLEAN :
       LET r == taskExists(tasks, tsk_task, call[p].id, call[p].taskId, dbOk)
           c == [call[p] EXCEPT !.reads = @ + 1]
       IN /\ tsk_task' = r.dest
          /\ IF r.err # "nil"
             THEN Return(p, c, r.err, NoUser, {})
             ELSE Goto(p, [c EXCEPT !.existingTask =
                             [r.task EXCEPT !.title = call[p].task.title,
                                            !.description = call[p].task.description,
                                            !.completed = call[p].task.completed]],
                       "UpdateTask_Update")
  /\ UNCHANGED <<users, tasks, constraints, clock, nextUserId, nextTaskId, usr_model>>

\* UpdateTask from t.tsk.Update on
UpdateTask_Update(p) ==
  /\ pc[p] = "UpdateTask_Update"
  /\ \E dbOk \in BOOLEAN :
       LET r == tsk_Update(tasks, tsk_task, call[p].taskId, call[p].existingTask,
                           clock, dbOk)
           c == [call[p] EXCEPT !.writes = @ + 1]
       IN /\ tasks' = r.tasks
          /\ tsk_task' = r.dest
          /\ clock' = IF r.err = "nil" THEN clock + 1 ELSE clock
          /\ Return(p, c, r.err, NoUser, {})
  /\ UNCHANGED <<users, constraints, nextUserId, nextTaskId, usr_model>>

\* DeleteTask up to and including the taskExists check
DeleteTask(p) ==
  /\ Ready(p)
  /\ \E userID \in ArgUserIds, taskID \in ArgTaskIds :
     \E dbOk \in Outcomes(taskID # Nil) :
       LET c == [NewCall("DeleteTask") EXCEPT !.id = userID, !.taskId = taskID]
           r == taskExists(tasks, tsk_task, userID, taskID, dbOk)
       IN IF taskID = Nil
          THEN /\ Return(p, c, "ErrInvalidTaskID", NoUser, {})
               /\ UNCHANGED tsk_task
          ELSE /\ tsk_task' = r.dest
               /\ IF r.err # "nil"
                  THEN Return(p, [c EXCEPT !.reads = 1], r.err, NoUser, {})
                  ELSE Goto(p, [c EXCEPT !.reads = 1], "DeleteTask_Delete")
  /\ UNCHANGED <<users, tasks, constraints, clock, nextUserId, nextTaskId, usr_model>>

\* DeleteTask from t.tsk.Delete on
DeleteTask_Delete(p) ==
  /\ pc[p] = "DeleteTask_Delete"
  /\ \E dbOk \in BOOLEAN :
       LET r == tsk_Delete(tasks, tsk_task, call[p].taskId, dbOk)
           c == [call[p] EXCEPT !.writes = @ + 1]
       IN /\ tasks' = r.tasks
          /\ tsk_task' = r.dest
          /\ Return(p, c, r.err, NoUser, {})
  /\ UNCHANGED <<users, constraints, clock, nextUserId, nextTaskId, usr_model>>

\* ------------------------------------------------- HTTP task controller
\* the values the :id and :task_id segments of a request path may hold: the
\* text of an identifier, or text that is none
PathParams ==
  {<<"1">>, <<"2">>, <<"x">>}

\* ParseUUID: the identifier the text spells, or an error
ParseUUID(idStr) ==
  IF idStr = <<"1">> THEN [err |-> "nil", uuid |-> 1]
  ELSE IF idStr = <<"2">> THEN [err |-> "nil", uuid |-> 2]
  ELSE [err |-> "invalid UUID", uuid |-> Nil]

\* the loop of ValidateUUIDParams: each parsed value is appended to uuids
RECURSIVE ValidateUUIDParams_Loop(_, _)
ValidateUUIDParams_Loop(uuids, param) ==
  IF param = <<>> THEN [uuids |-> uuids, ok |-> TRUE]
  ELSE LET r == ParseUUID(Head(param))
       IN IF r.err # "nil" THEN [uuids |-> <<>>, ok |-> FALSE]
          ELSE ValidateUUIDParams_Loop(Append(uuids, r.uuid), Tail(param))

\* ValidateUUIDParams: uuids is made with one nil identifier per parameter
\* before the loop appends to it
ValidateUUIDParams(param) ==
  ValidateUUIDParams_Loop([i \in 1..Len(param) |-> Nil], param)

\* TaskController.FindTaskByID: the parameters are validated, params[0] and
\* params[1] go to the service as user id and task id
TaskController_FindTaskByID(p) ==
  /\ Ready(p)
  /\ \E id \in PathParams, task_id \in PathParams :
       LET v == ValidateUUIDParams(<<id, task_id>>)
           c0 == [NewCall("FindTaskByID") EXCEPT !.handler = "TaskController.FindTaskByID",
                                                 !.params = <<id, task_id>>,
                                                 !.uuids = v.uuids]
       IN IF ~v.ok
          THEN /\ ReturnTask(p, c0, "Invalid user or task ID", NoTask)
               /\ UNCHANGED tsk_task
          ELSE \E dbOk \in BOOLEAN :
                 LET userID == v.uuids[1]
                     taskID == v.uuids[2]
                     r == taskExists(tasks, tsk_task, userID, taskID, dbOk)
                     c == [c0 EXCEPT !.id = userID, !.taskId = taskID, !.reads = 1]
                 IN /\ tsk_task' = r.dest
                    /\ ReturnTask(p, c, r.err, r.task)
  /\ UNCHANGED <<users, tasks, constraints, clock, nextUserId, nextTaskId, usr_model>>

\* TaskController.UpdateTask up to and including the service's userExists
\* check: the parameters are validated, the body is bound, params[0] and
\* params[1] go to the service as user id and task id
TaskController_UpdateTask(p) ==
  /\ Ready(p) /\ TimeLeftForWrite
  /\ \E id \in PathParams, task_id \in PathParams, bound \in BOOLEAN,
        task \in Replacements :
       LET v == ValidateUUIDParams(<<id, task_id>>)
           c0 == [NewCall("UpdateTask") EXCEPT !.handler = "TaskController.UpdateTask",
                                               !.params = <<id, task_id>>,
                                               !.uuids = v.uuids]
       IN IF ~v.ok
          THEN Return(p, c0, "Invalid user or task ID", NoUser, {}) /\ UNCHANGED usr_model
          ELSE IF ~bound
          THEN Return(p, c0, "Invalid request", NoUser, {}) /\ UNCHANGED usr_model
          ELSE LET userID == v.uuids[1]
                   taskID == v.uuids[2]
                   c == [c0 EXCEPT !.id = userID, !.taskId = taskID, !.task = task]
               IN \E dbOk \in Outcomes(taskID # Nil) :
                    IF taskID = Nil
                    THEN /\ Return(p, c, "ErrInvalidTaskID", NoUser, {})
                         /\ UNCHANGED usr_model
                    ELSE /\ usr_model' = usr_FindByID(users, usr_model, userID, dbOk).dest
                         /\ IF ~userExists(users, usr_model, userID, dbOk)
                            THEN Return(p, c, "ErrUserNotFound", NoUser, {})
                            ELSE Goto(p, c, "UpdateTask_taskExists")
  /\ UNCHANGED <<users, tasks, constraints, clock, nextUserId, nextTaskId, tsk_task>>

\* the status code the handler answers with once the call has returned
TaskController_Status(p) ==
  IF ret[p].err \in {"Invalid user or task ID", "Invalid request"} THEN 400
  ELSE IF ret[p].err = "nil" THEN 200
  ELSE IF call[p].handler = "TaskController.FindTaskByID" THEN 404
  ELSE 422

\* ---------------------------------------------------------- specifications
\* the users tables a run may start on: none, one or two users registered
\* earlier, with different usernames and emails
InitUsers ==
  LET row1 == [username |-> <<"u","1">>, email |-> <<"a","@","b",".","i","o">>,
               createdAt |-> 0, updatedAt |-> 0]
      row2 == [username |-> <<"u","2">>, email |-> <<"c","@","b",".","i","o">>,
               createdAt |-> 0, updatedAt |-> 0]
  IN { [id \in {} |-> row1], [id \in {1} |-> row1],
       [id \in {1, 2} |-> IF id = 1 THEN row1 ELSE row2] }

Init ==
  /\ users \in InitUsers
  /\ tasks = [t \in {} |-> NoTask]
  /\ constraints \in BOOLEAN
  /\ clock = 1
  /\ nextUserId = Cardinality(DOMAIN users) + 1
  /\ nextTaskId = 1
  /\ usr_model = NoUser
  /\ tsk_task = NoTask
  /\ pc = [p \in Procs |-> "idle"]
  /\ call = [p \in Procs |-> NewCall("none")]
  /\ ret = [p \in Procs |-> NoRet]

\* a goroutine that passed its checks makes the repository call it stands at
Resume(p) ==
  CASE pc[p] = "RegisterUser_Save" -> RegisterUser_Save(p)
    [] pc[p] = "UpdateUser_Update" -> UpdateUser_Update(p)
    [] pc[p] = "UpdateUserFields_UpdateFields" -> UpdateUserFields_UpdateFields(p)
    [] pc[p] = "CreateTask_Save" -> CreateTask_Save(p)
    [] pc[p] = "FindUserTasks_FindUserTasks" -> FindUserTasks_FindUserTasks(p)
    [] pc[p] = "UpdateTask_taskExists" -> UpdateTask_taskExists(p)
    [] pc[p] = "UpdateTask_Update" -> UpdateTask_Update(p)
    [] pc[p] = "DeleteTask_Delete" -> DeleteTask_Delete(p)
    [] OTHER -> FALSE

\* the result has gone back to the caller: the goroutine serves the next request
Respond(p) ==
  /\ pc[p] = "done"
  /\ pc' = [pc EXCEPT ![p] = "idle"]
  /\ call' = [call EXCEPT ![p] = NewCall("none")]
  /\ ret' = [ret EXCEPT ![p] = NoRet]
  /\ UNCHANGED <<users, tasks, constraints, clock, nextUserId, nextTaskId,
                 usr_model, tsk_task>>

Step(p) ==
  \/ RegisterUser(p)
  \/ UpdateUser(p)
  \/ UpdateUserFields(p)
  \/ DeleteUser(p)
  \/ CreateTask(p)
  \/ FindUserTasks(p)
  \/ GetUserByID(p)
  \/ FindTaskByID(p)
  \/ UpdateTask(p)
  \/ DeleteTask(p)
  \/ Resume(p)

\* one caller: the operations follow each other, none interleaved
Next ==
  Step(1) \/ Respond(1)

Spec ==
  Init /\ [][Next]_vars

\* two request goroutines, each serving one request, their repository calls
\* interleaved
ConcNext ==
  \E p \in Procs : Step(p)

ConcSpec ==
  Init /\ [][ConcNext]_vars

\* the stores the race between a task write and DeleteUser starts on: two users
\* and the task a CreateTask has stored for one of them
RaceInit ==
  /\ users \in {us \in InitUsers : DOMAIN us = {1, 2}}
  /\ \E owner \in {1, 2} :
       tasks = [t \in {1} |-> [title |-> <<"t","1">>, description |-> <<"d">>,
                               completed |-> FALSE, createdAt |-> 1,
                               updatedAt |-> 2, userId |-> owner]]
  /\ constraints \in BOOLEAN
  /\ clock = 3
  /\ nextUserId = 3
  /\ nextTaskId = 2
  /\ usr_model = NoUser
  /\ tsk_task = NoTask
  /\ pc = [p \in Procs |-> "idle"]
  /\ call = [p \in Procs |-> NewCall("none")]
  /\ ret = [p \in Procs |-> NoRet]

\* two request goroutines, each serving one of CreateTask, UpdateTask and
\* DeleteUser, their repository calls interleaved
RaceNext ==
  \E p \in Procs : CreateTask(p) \/ UpdateTask(p) \/ DeleteUser(p) \/ Resume(p)

RaceSpec ==
  RaceInit /\ [][RaceNext]_vars

\* one caller reaching the task service through the HTTP handlers as well as
\* directly
HttpNext ==
  \/ TaskController_FindTaskByID(1)
  \/ TaskController_UpdateTask(1)
  \/ Next

HttpSpec ==
  Init /\ [][HttpNext]_vars

\* ------------------------------- the repository calls, statement by statement
\* A repository method is not one step: the ORM builds the statement, reading
\* the primary key of the destination for its conditions (pk), the query runs
\* and its row is scanned into the package-level variable, and the statements
\* that follow read that variable again.  Goroutines interleave between these
\* steps; each step on its own is taken as a whole.

\* FindTaskByID: the statement of First(&task) is built
tsk_FindTaskByID_Begin(p) ==
  /\ Ready(p)
  /\ \E taskID \in TaskIds :
       Goto(p, [NewCall("tsk.FindTaskByID") EXCEPT !.taskId = taskID,
                                                   !.pk = tsk_task.id],
            "tsk_FindTaskByID_First")
  /\ UNCHANGED <<users, tasks, constraints, clock, nextUserId, nextTaskId,
                 usr_model, tsk_task>>

\* Update: the statement of First(&task) is built
tsk_Update_Begin(p) ==
  /\ Ready(p)
  /\ \E taskID \in TaskIds, tsk \in Replacements :
       Goto(p, [NewCall("tsk.Update") EXCEPT !.taskId = taskID, !.task = tsk,
                                             !.pk = tsk_task.id],
            "tsk_Update_First")
  /\ UNCHANGED <<users, tasks, constraints, clock, nextUserId, nextTaskId,
                 usr_model, tsk_task>>

\* Delete: the statement of First(&task) is built
tsk_Delete_Begin(p) ==
  /\ Ready(p)
  /\ \E taskID \in TaskIds :
       Goto(p, [NewCall("tsk.Delete") EXCEPT !.taskId = taskID, !.pk = tsk_task.id],
            "tsk_Delete_First")
  /\ UNCHANGED <<users, tasks, constraints, clock, nextUserId, nextTaskId,
                 usr_model, tsk_task>>

\* the query of First(&task) runs and its row is scanned into task
tsk_First(p) ==
  /\ pc[p] \in {"tsk_FindTaskByID_First", "tsk_Update_First", "tsk_Delete_First"}
  /\ \E dbOk \in BOOLEAN :
       IF ~dbOk
       THEN Return(p, call[p], "db error", NoUser, {}) /\ UNCHANGED tsk_task
       ELSE IF ~(call[p].taskId \in DOMAIN tasks /\ call[p].pk \in {Nil, call[p].taskId})
       THEN /\ Return(p, call[p], "gorm.ErrRecordNotFound", NoUser, {})
            /\ UNCHANGED tsk_task
       ELSE /\ tsk_task' = TaskOf(tasks, call[p].taskId)
            /\ Goto(p, call[p],
                    IF pc[p] = "tsk_FindTaskByID_First" THEN "tsk_FindTaskByID_Return"
                    ELSE IF pc[p] = "tsk_Update_First" THEN "tsk_Update_Assign"
                    ELSE "tsk_Delete_Delete")
  /\ UNCHANGED <<users, tasks, constraints, clock, nextUserId, nextTaskId, usr_model>>

\* FindTaskByID: the domain.Task returned is built from task
tsk_FindTaskByID_Return(p) ==
  /\ pc[p] = "tsk_FindTaskByID_Return"
  /\ ReturnTask(p, call[p], "nil", tsk_task)
  /\ UNCHANGED <<users, tasks, constraints, clock, nextUserId, nextTaskId,
                 usr_model, tsk_task>>

\* Update: title, description, completed and updated_at of tsk go into task
tsk_Update_Assign(p) ==
  /\ pc[p] = "tsk_Update_Assign"
  /\ tsk_task' = [tsk_task EXCEPT !.title = call[p].task.title,
                                  !.description = call[p].task.description,
                                  !.completed = call[p].task.completed,
                                  !.updatedAt = call[p].task.updatedAt]
  /\ Goto(p, call[p], "tsk_Update_Save")
  /\ UNCHANGED <<users, tasks, constraints, clock, nextUserId, nextTaskId, usr_model>>

\* Update: DB.Save(&task) sets updated_at and writes every field of task to
\* the row with the primary key of task; when no row has it the ORM inserts
\* task, which the foreign key on user_id may refuse
tsk_Update_Save(p) ==
  /\ pc[p] = "tsk_Update_Save"
  /\ clock < MaxClock
  /\ \E dbOk \in BOOLEAN :
       LET row == [tsk_task EXCEPT !.updatedAt = clock]
           written == [t \in DOMAIN tasks \cup {row.id} |->
                         IF t = row.id
                         THEN [title |-> row.title, description |-> row.description,
                               completed |-> row.completed, createdAt |-> row.createdAt,
                               updatedAt |-> row.updatedAt, userId |-> row.userId]
                         ELSE tasks[t]]
           c == [call[p] EXCEPT !.acted = row.id, !.writes = @ + 1]
       IN /\ tsk_task' = row
          /\ clock' = clock + 1
          /\ IF ~dbOk \/ (row.id \notin DOMAIN tasks /\ row.userId \notin DOMAIN users)
             THEN Return(p, c, "db error", NoUser, {}) /\ UNCHANGED tasks
             ELSE Return(p, c, "nil", NoUser, {}) /\ tasks' = written
  /\ UNCHANGED <<users, constraints, nextUserId, nextTaskId, usr_model>>

\* Delete: DB.Delete(&task) deletes the row with the primary key of task
tsk_Delete_Delete(p) ==
  /\ pc[p] = "tsk_Delete_Delete"
  /\ \E dbOk \in BOOLEAN :
       LET c == [call[p] EXCEPT !.acted = tsk_task.id, !.writes = @ + 1]
       IN IF ~dbOk
          THEN Return(p, c, "db error", NoUser, {}) /\ UNCHANGED tasks
          ELSE /\ Return(p, c, "nil", NoUser, {})
               /\ tasks' = [t \in DOMAIN tasks \ {tsk_task.id} |-> tasks[t]]
  /\ UNCHANGED <<users, constraints, clock, nextUserId, nextTaskId, usr_model, tsk_task>>

\* FindByID: the statement of First(&model) is built
usr_FindByID_Begin(p) ==
  /\ Ready(p)
  /\ \E id \in UserIds :
       Goto(p, [NewCall("usr.FindByID") EXCEPT !.id = id, !.pk = usr_model.id],
            "usr_FindByID_First")
  /\ UNCHANGED <<users, tasks, constraints, clock, nextUserId, nextTaskId,
                 usr_model, tsk_task>>

\* the query of First(&model) runs and its row is scanned into model; every
\* failure is reported as core.ErrUserNotFound
usr_First(p) ==
  /\ pc[p] = "usr_FindByID_First"
  /\ \E dbOk \in BOOLEAN :
       IF ~dbOk \/ ~(call[p].id \in DOMAIN users /\ call[p].pk \in {Nil, call[p].id})
       THEN Return(p, call[p], "ErrUserNotFound", NoUser, {}) /\ UNCHANGED usr_model
       ELSE /\ usr_model' = UserOf(users, call[p].id)
            /\ Goto(p, call[p], "usr_FindByID_Return")
  /\ UNCHANGED <<users, tasks, constraints, clock, nextUserId, nextTaskId, tsk_task>>

\* FindByID: the domain.User returned is built from model
usr_FindByID_Return(p) ==
  /\ pc[p] = "usr_FindByID_Return"
  /\ Return(p, call[p], "nil", usr_model, {})
  /\ UNCHANGED <<users, tasks, constraints, clock, nextUserId, nextTaskId,
                 usr_model, tsk_task>>

\* the stores the repository calls start on: two users with a task each
RepoInit ==
  /\ users \in {us \in InitUsers : DOMAIN us = {1, 2}}
  /\ tasks = [t \in {1, 2} |-> [title |-> <<"t","1">>, description |-> <<"d">>,
                                 completed |-> FALSE, createdAt |-> 1,
                                 updatedAt |-> 2, userId |-> t]]
  /\ constraints \in BOOLEAN
  /\ clock = 3
  /\ nextUserId = 3
  /\ nextTaskId = 3
  /\ usr_model = NoUser
  /\ tsk_task = NoTask
  /\ pc = [p \in Procs |-> "idle"]
  /\ call = [p \in Procs |-> NewCall("none")]
  /\ ret = [p \in Procs |-> NoRet]

\* two goroutines, each making one repository call, interleaved between the
\* statements of the calls
RepoNext ==
  \E p \in Procs :
    \/ tsk_FindTaskByID_Begin(p)
    \/ tsk_Update_Begin(p)
    \/ tsk_Delete_Begin(p)
    \/ tsk_First(p)
    \/ tsk_FindTaskByID_Return(p)
    \/ tsk_Update_Assign(p)
    \/ tsk_Update_Save(p)
    \/ tsk_Delete_Delete(p)
    \/ usr_FindByID_Begin(p)
    \/ usr_First(p)
    \/ usr_FindByID_Return(p)

RepoSpec ==
  RepoInit /\ [][RepoNext]_vars

\* ------------------------------------------------------------------ claims
\* goroutine p has returned from operation op
Finished(p, op) ==
  pc[p] = "done" /\ call[p].op = op

\* the stored users holding an email
EmailHolders(us, email) ==
  {id \in DOMAIN us : us[id].email = email}

\* the keys of the payload a finished UpdateUserFields was called with
PayloadKeys(p) ==
  DOMAIN call[p].fields \ {"updated_at"}

\* the errors of the InvalidInput kind
InvalidInput ==
  {"ErrInvalidEmail", "ErrInvalidUpdateField", "ErrInvalidTaskID"}

\* the errors that report a failure of the database itself
DbFailures ==
  {"db error", "ErrSaveUser", "ErrUpdateUser", "ErrDeleteUser"}

\* C1: in every state reached by non-interleaved operations, no two stored
\* users have the same email
C1_UniqueEmails ==
  \A a, b \in DOMAIN users : a # b => users[a].email # users[b].email

\* an UpdateUser asking for the email of another stored user, on tables without
\* the unique index, has returned
C1_Witness ==
  /\ ~constraints
  /\ Finished(1, "UpdateUser")
  /\ call[1].id \in DOMAIN users
  /\ EmailHolders(users, call[1].user.email) \ {call[1].id} # {}
  /\ ret[1].err = "ErrEmailAlreadyExists"

\* C2: when the tables carry no unique index, each of two concurrent
\* RegisterUser calls with the same valid email no stored user holds passes the
\* IsEmailInUse check (and so reaches Save) unless the database fails it
C2_BothPassTheCheck ==
  \A p \in Procs :
    ( /\ ~constraints
      /\ Finished(p, "RegisterUser")
      /\ call[p].user.email \in ValidEmails
      /\ EmailHolders(call[p].preUsers, call[p].user.email) = {}
      /\ ret[p].err # "db error" )
    => call[p].writes = 1

\* C3: the first RegisterUser with a valid email no stored user holds succeeds
\* and stores exactly one new user, with that email; a RegisterUser with an
\* email a stored user holds fails with ErrEmailAlreadyExists and leaves the
\* stored users unchanged (failures of the database set aside)
C3_RegisterOncePerEmail ==
  ( /\ Finished(1, "RegisterUser")
    /\ call[1].user.email \in ValidEmails
    /\ ret[1].err \notin DbFailures )
  => IF EmailHolders(call[1].preUsers, call[1].user.email) = {}
     THEN /\ ret[1].err = "nil"
          /\ \E id \in DOMAIN users \ DOMAIN call[1].preUsers :
               /\ DOMAIN users = DOMAIN call[1].preUsers \cup {id}
               /\ users[id].email = call[1].user.email
               /\ \A o \in DOMAIN call[1].preUsers : users[o] = call[1].preUsers[o]
     ELSE /\ ret[1].err = "ErrEmailAlreadyExists"
          /\ users = call[1].preUsers

\* C4: RegisterUser with an email that does not match the syntax fails with
\* ErrInvalidEmail, never calls Save, and leaves the store unchanged
C4_InvalidEmailRejected ==
  ( Finished(1, "RegisterUser") /\ call[1].user.email \in BadEmails )
  => /\ ret[1].err = "ErrInvalidEmail"
     /\ call[1].writes = 0
     /\ users = call[1].preUsers
     /\ tasks = call[1].preTasks

\* a RegisterUser with a malformed email has returned, on a table holding users
C4_Witness ==
  /\ Finished(1, "RegisterUser")
  /\ call[1].user.email \in BadEmails
  /\ DOMAIN users # {}
  /\ ret[1].err = "ErrInvalidEmail"

\* C5: UpdateUserFields(u.id, {email: u.email}) and UpdateUser(u.id, ...) with
\* email = u.email, for a stored user u, do not fail with ErrEmailAlreadyExists
C5_NoSelfCollision ==
  /\ ( /\ Finished(1, "UpdateUser")
       /\ call[1].id \in DOMAIN call[1].preUsers
       /\ call[1].user.email = call[1].preUsers[call[1].id].email )
     => ret[1].err # "ErrEmailAlreadyExists"
  /\ ( /\ Finished(1, "UpdateUserFields")
       /\ call[1].id \in DOMAIN call[1].preUsers
       /\ PayloadKeys(1) = {"email"}
       /\ call[1].fields["email"].str = call[1].preUsers[call[1].id].email )
     => ret[1].err # "ErrEmailAlreadyExists"

\* C6: UpdateUserFields with a payload holding a key outside {username, email}
\* fails with the InvalidInput kind and leaves the stored users unchanged (a
\* payload whose email collides, which may fail with AlreadyExists, set aside)
C6_UnknownKeyRejected ==
  ( /\ Finished(1, "UpdateUserFields")
    /\ ~(PayloadKeys(1) \subseteq validFields)
    /\ ret[1].err # "ErrEmailAlreadyExists" )
  => /\ ret[1].err \in InvalidInput
     /\ users = call[1].preUsers

\* C7: UpdateUserFields for a stored user with a payload of a username and no
\* email terminates normally and returns the record with the new username and
\* the stored email (a failure of the database set aside)
C7_UsernameOnly ==
  ( /\ Finished(1, "UpdateUserFields")
    /\ call[1].id \in DOMAIN call[1].preUsers
    /\ PayloadKeys(1) = {"username"}
    /\ call[1].fields["username"].str # <<>>
    /\ ret[1].err \notin DbFailures )
  => /\ ret[1].err = "nil"
     /\ ret[1].user.id = call[1].id
     /\ ret[1].user.username = call[1].fields["username"].str
     /\ ret[1].user.email = call[1].preUsers[call[1].id].email

\* C8: CreateTask with a userId no stored user has fails with ErrUserNotFound,
\* never calls the task repository's Save, and leaves the stored tasks unchanged
C8_CreateTaskAbsentUser ==
  ( Finished(1, "CreateTask") /\ call[1].id \notin DOMAIN call[1].preUsers )
  => /\ ret[1].err = "ErrUserNotFound"
     /\ call[1].writes = 0
     /\ tasks = call[1].preTasks

\* a CreateTask naming an absent user (not the nil id) has returned, tasks of
\* another user being stored
C8_Witness ==
  /\ Finished(1, "CreateTask")
  /\ call[1].id \notin DOMAIN call[1].preUsers \cup {Nil}
  /\ DOMAIN tasks # {}
  /\ ret[1].err = "ErrUserNotFound"

\* C9: FindUserTasks fails with ErrUserNotFound exactly when no user with the
\* id is stored, with ErrNoTasksFound exactly when the user is stored and owns
\* no task (unless the task query itself fails), and never returns an empty
\* list without an error
C9_TwoFailures ==
  Finished(1, "FindUserTasks")
  => LET stored == call[1].id \in DOMAIN call[1].preUsers
         owned  == {t \in DOMAIN tasks : tasks[t].userId = call[1].id}
     IN /\ (ret[1].err = "ErrUserNotFound") <=> ~stored
        /\ (ret[1].err = "ErrNoTasksFound") => (stored /\ owned = {})
        /\ (stored /\ owned = {} /\ ret[1].err # "db error")
             => ret[1].err = "ErrNoTasksFound"
        /\ ~(ret[1].err = "nil" /\ ret[1].tasks = {})

\* C10: FindUserTasks for a stored user owning at least one task terminates
\* normally and returns exactly the stored tasks of that user, with their
\* stored values (a failure of the database set aside)
C10_ExactlyTheUsersTasks ==
  LET owned == {t \in DOMAIN tasks : tasks[t].userId = call[1].id} IN
  ( /\ Finished(1, "FindUserTasks")
    /\ call[1].id \in DOMAIN call[1].preUsers
    /\ owned # {}
    /\ ret[1].err \notin {"db error", "ErrUserNotFound"} )
  => /\ ret[1].err = "nil"
     /\ ret[1].tasks = {TaskOf(tasks, t) : t \in owned}

\* C11: a successful UpdateTask changes only title, description, completed and
\* updatedAt of the task named: its userId and createdAt stay as stored,
\* whatever the replacement carries, and every other task and every user is
\* unchanged
C11_UpdateTaskFrame ==
  ( Finished(1, "UpdateTask") /\ ret[1].err = "nil" )
  => LET t == call[1].taskId
         pre == call[1].preTasks
     IN /\ t \in DOMAIN pre
        /\ DOMAIN tasks = DOMAIN pre
        /\ tasks[t].userId = pre[t].userId
        /\ tasks[t].createdAt = pre[t].createdAt
        /\ tasks[t].title = call[1].task.title
        /\ tasks[t].description = call[1].task.description
        /\ tasks[t].completed = call[1].task.completed
        /\ \A o \in DOMAIN pre \ {t} : tasks[o] = pre[o]
        /\ users = call[1].preUsers

\* an UpdateTask has succeeded and changed the title, another task being stored
C11_Witness ==
  /\ Finished(1, "UpdateTask") /\ ret[1].err = "nil"
  /\ DOMAIN tasks \ {call[1].taskId} # {}
  /\ tasks[call[1].taskId].title # call[1].preTasks[call[1].taskId].title
  /\ call[1].task.createdAt # tasks[call[1].taskId].createdAt

\* C12: after a successful UpdateTask the stored updatedAt of the task is
\* strictly greater than before the call, and not less than its createdAt
C12_UpdateTaskStamps ==
  ( Finished(1, "UpdateTask") /\ ret[1].err = "nil" )
  => LET t == call[1].taskId IN
     /\ t \in DOMAIN tasks /\ t \in DOMAIN call[1].preTasks
     /\ tasks[t].updatedAt > call[1].preTasks[t].updatedAt
     /\ tasks[t].updatedAt >= tasks[t].createdAt

\* an UpdateTask has succeeded on a task that was updated before
C12_Witness ==
  /\ Finished(1, "UpdateTask") /\ ret[1].err = "nil"
  /\ call[1].preTasks[call[1].taskId].updatedAt
       > call[1].preTasks[call[1].taskId].createdAt + 1

\* C13: every stored user has updatedAt >= createdAt, and a successful
\* UpdateUser or UpdateUserFields leaves the stored updatedAt of the user
\* strictly greater than before the call
C13_UserTimestamps ==
  /\ \A u \in DOMAIN users : users[u].updatedAt >= users[u].createdAt
  /\ ( /\ Finished(1, "UpdateUser") \/ Finished(1, "UpdateUserFields")
       /\ ret[1].err = "nil" )
     => /\ call[1].id \in DOMAIN users /\ call[1].id \in DOMAIN call[1].preUsers
        /\ users[call[1].id].updatedAt > call[1].preUsers[call[1].id].updatedAt

\* the task ids that were given to a task which a DeleteTask has removed since:
\* ids are handed out in order, and no user was deleted (no cascade)
DeletedTaskIds ==
  IF Cardinality(DOMAIN users) = nextUserId - 1
  THEN {t \in TaskIds : t < nextTaskId /\ t \notin DOMAIN tasks}
  ELSE {}

\* C14: a successful DeleteTask removes the task and leaves every other stored
\* task as it was; a FindTaskByID for the id of a deleted task, the database
\* answering, fails with ErrTaskNotFound
C14_DeleteThenNotFound ==
  /\ ( Finished(1, "DeleteTask") /\ ret[1].err = "nil" )
     => /\ call[1].taskId \in DOMAIN call[1].preTasks
        /\ DOMAIN tasks = DOMAIN call[1].preTasks \ {call[1].taskId}
        /\ \A t \in DOMAIN tasks : tasks[t] = call[1].preTasks[t]
  /\ ( /\ Finished(1, "FindTaskByID")
       /\ call[1].taskId \in DeletedTaskIds
       /\ ret[1].err # "db error" )
     => ret[1].err = "ErrTaskNotFound"

\* C15: FindTaskByID with the nil task id fails with ErrInvalidTaskID and makes
\* no call to the task repository
C15_NilTaskIdRejected ==
  ( Finished(1, "FindTaskByID") /\ call[1].taskId = Nil )
  => /\ ret[1].err = "ErrInvalidTaskID"
     /\ call[1].reads = 0

\* the errors that say a row was not found, the ORM's own included
NotFound ==
  {"ErrUserNotFound", "ErrTaskNotFound", "gorm.ErrRecordNotFound"}

\* C16: FindTaskByID returns a task only if it is stored with that id and its
\* userId is the userId argument; when no stored task has that id under that
\* user (the database answering) it fails with a not-found error
C16_OnlyTheUsersTask ==
  Finished(1, "FindTaskByID")
  => /\ ret[1].err = "nil"
        => /\ call[1].taskId \in DOMAIN tasks
           /\ ret[1].task = TaskOf(tasks, call[1].taskId)
           /\ ret[1].task.userId = call[1].id
     /\ ( /\ ret[1].err # "db error"
          /\ ~ ( /\ call[1].taskId \in DOMAIN tasks
                 /\ tasks[call[1].taskId].userId = call[1].id ) )
        => ret[1].err \in NotFound

\* the email a finished RegisterUser, UpdateUser or UpdateUserFields asked for
\* (empty when the payload has none)
RequestedEmail(p) ==
  IF call[p].op \in {"RegisterUser", "UpdateUser"} THEN call[p].user.email
  ELSE IF call[p].op = "UpdateUserFields" /\ "email" \in DOMAIN call[p].fields
  THEN call[p].fields["email"].str
  ELSE <<>>

\* C17: UpdateUser and UpdateUserFields with a valid email no stored user holds
\* (and, for UpdateUserFields, only allowed keys) and an id no stored user has
\* fail with ErrUserNotFound and leave the stored users unchanged (a failure
\* reported as the database's set aside)
C17_AbsentUserNotFound ==
  ( /\ Finished(1, "UpdateUser") \/ Finished(1, "UpdateUserFields")
    /\ call[1].id # Nil
    /\ call[1].id \notin DOMAIN call[1].preUsers
    /\ RequestedEmail(1) \in ValidEmails
    /\ EmailHolders(call[1].preUsers, RequestedEmail(1)) = {}
    /\ Finished(1, "UpdateUserFields") => PayloadKeys(1) \subseteq validFields
    /\ ret[1].err # "db error" )
  => /\ ret[1].err = "ErrUserNotFound"
     /\ users = call[1].preUsers

\* C18: UpdateUser and UpdateUserFields asking for a valid email that a stored
\* user with another id holds fail with ErrEmailAlreadyExists, make no
\* repository write and leave the stored users unchanged (a failure reported as
\* the database's set aside)
C18_TakenEmailRejected ==
  ( /\ Finished(1, "UpdateUser") \/ Finished(1, "UpdateUserFields")
    /\ RequestedEmail(1) \in ValidEmails
    /\ EmailHolders(call[1].preUsers, RequestedEmail(1)) \ {call[1].id} # {}
    /\ ret[1].err # "db error" )
  => /\ ret[1].err = "ErrEmailAlreadyExists"
     /\ call[1].writes = 0
     /\ users = call[1].preUsers

\* an UpdateUserFields of a stored user asking for the email of the other stored
\* user has returned
C18_Witness ==
  /\ Finished(1, "UpdateUserFields")
  /\ call[1].id \in DOMAIN users
  /\ RequestedEmail(1) \in ValidEmails
  /\ EmailHolders(users, RequestedEmail(1)) \ {call[1].id} # {}
  /\ users[call[1].id].email # RequestedEmail(1)
  /\ ret[1].err = "ErrEmailAlreadyExists"

\* C19: a successful UpdateUser leaves the stored row with the username and
\* email of the replacement, the createdAt stored before (not the one the
\* replacement carries) and a later updatedAt; and a GetUserByID that returns
\* without error returns the row stored under the id, with that id. The stored
\* users do not change between the return of one call and the next call, so a
\* GetUserByID following the update returns that row
C19_UpdateThenGet ==
  /\ ( Finished(1, "UpdateUser") /\ ret[1].err = "nil" )
     => LET id == call[1].id
            pre == call[1].preUsers
        IN /\ id \in DOMAIN users /\ id \in DOMAIN pre
           /\ DOMAIN users = DOMAIN pre
           /\ users[id].username = call[1].user.username
           /\ users[id].email = call[1].user.email
           /\ users[id].createdAt = pre[id].createdAt
           /\ users[id].updatedAt > pre[id].updatedAt
           /\ users[id].updatedAt >= call[1].user.updatedAt
  /\ ( Finished(1, "GetUserByID") /\ ret[1].err = "nil" )
     => /\ call[1].id \in DOMAIN users
        /\ ret[1].user = UserOf(users, call[1].id)

\* a GetUserByID has returned user 2 under the username only an UpdateUser can
\* have given it
C19_Witness ==
  /\ Finished(1, "GetUserByID") /\ ret[1].err = "nil"
  /\ call[1].id = 2
  /\ ret[1].user.username = <<"u","1">>
  /\ ret[1].user.email = <<"c","@","b",".","i","o">>
  /\ ret[1].user.updatedAt > ret[1].user.createdAt

\* C20: GetUserByID returns either the stored user whose id is the id asked for,
\* with no error, or no user with an error; the error is ErrUserNotFound when
\* no user with the id is stored; it never returns no user and no error, also
\* when the query of FindByID fails
C20_UserOrError ==
  Finished(1, "GetUserByID")
  => /\ \/ /\ ret[1].err = "nil"
           /\ call[1].id \in DOMAIN users
           /\ ret[1].user.id = call[1].id
           /\ ret[1].user = UserOf(users, call[1].id)
        \/ /\ ret[1].err \notin {"nil", "none"}
           /\ ret[1].user = NoUser
     /\ call[1].id \notin DOMAIN users => ret[1].err = "ErrUserNotFound"

\* a GetUserByID for a stored user has returned an error: the query failed
C20_Witness ==
  /\ Finished(1, "GetUserByID")
  /\ call[1].id \in DOMAIN users
  /\ ret[1].err # "nil"
  /\ ret[1].user = NoUser

\* C21: DeleteUser for an id no stored user has returns no error and leaves the
\* stored users as they were; a successful DeleteUser for a stored user removes
\* that user and no other
C21_DeleteUserTolerant ==
  Finished(1, "DeleteUser")
  => IF call[1].id \notin DOMAIN call[1].preUsers
     THEN /\ ret[1].err = "nil"
          /\ users = call[1].preUsers
     ELSE ret[1].err = "nil"
          => /\ DOMAIN users = DOMAIN call[1].preUsers \ {call[1].id}
             /\ \A o \in DOMAIN users : users[o] = call[1].preUsers[o]

\* C22: in every state every stored task has the userId of a stored user (so
\* after a successful DeleteUser(u) no stored task has userId u)
C22_TasksHaveOwners ==
  \A t \in DOMAIN tasks : tasks[t].userId \in DOMAIN users

\* a DeleteUser has succeeded for a user that had tasks, another user being
\* still stored
C22_Witness ==
  /\ Finished(1, "DeleteUser") /\ ret[1].err = "nil"
  /\ \E t \in DOMAIN call[1].preTasks : call[1].preTasks[t].userId = call[1].id
  /\ call[1].id \notin DOMAIN users
  /\ users # <<>>

\* the store RaceInit starts on is one a CreateTask leaves
C23_RaceInitReached ==
  /\ DOMAIN users = {1, 2}
  /\ DOMAIN tasks = {1}
  /\ tasks[1] = [title |-> <<"t","1">>, description |-> <<"d">>,
                 completed |-> FALSE, createdAt |-> 1, updatedAt |-> 2,
                 userId |-> 2]
  /\ clock = 3 /\ nextTaskId = 2 /\ nextUserId = 3

\* C23: whenever the Save of a CreateTask(u, t) or the Update of an
\* UpdateTask(u, id, t) takes effect, the user u is stored, whatever a
\* concurrent DeleteUser(u) did since the userExists check
C23_WriteWhileUserStored ==
  [][ \A p \in Procs :
        ( /\ pc[p] \in {"CreateTask_Save", "UpdateTask_Update"}
          /\ pc'[p] = "done"
          /\ ret'[p].err = "nil" )
        => call[p].id \in DOMAIN users ]_vars

\* C24: a read that fails though the row is there is not reported as a domain
\* outcome: RegisterUser, UpdateUser and UpdateUserFields asking for an email
\* that is stored return ErrEmailAlreadyExists only if a user other than the one
\* named holds it, and CreateTask, FindUserTasks and UpdateTask return
\* ErrUserNotFound only if no user with the id is stored
C24_FailedReadNotAnOutcome ==
  /\ ( /\ \E op \in {"RegisterUser", "UpdateUser", "UpdateUserFields"} : Finished(1, op)
       /\ EmailHolders(call[1].preUsers, RequestedEmail(1)) # {}
       /\ ret[1].err = "ErrEmailAlreadyExists" )
     => EmailHolders(call[1].preUsers, RequestedEmail(1)) \ {call[1].id} # {}
  /\ ( /\ \E op \in {"CreateTask", "FindUserTasks", "UpdateTask"} : Finished(1, op)
       /\ ret[1].err = "ErrUserNotFound" )
     => call[1].id \notin DOMAIN call[1].preUsers

\* C25: after a successful UpdateUserFields with a payload of a username and an
\* email, the stored row and the returned record have the username and the
\* email of the payload, in whatever order the keys were visited
C25_EveryFieldApplied ==
  ( /\ Finished(1, "UpdateUserFields")
    /\ ret[1].err = "nil"
    /\ PayloadKeys(1) = {"username", "email"}
    /\ call[1].fields["username"].str # <<>> )
  => /\ call[1].id \in DOMAIN users
     /\ users[call[1].id].username = call[1].fields["username"].str
     /\ users[call[1].id].email = call[1].fields["email"].str
     /\ ret[1].user.username = call[1].fields["username"].str
     /\ ret[1].user.email = call[1].fields["email"].str

\* C26: when no stored user has the email, FindByEmail reports absence as
\* ErrUserNotFound, so that IsEmailInUse answers (false, no error): RegisterUser
\* with a valid email no stored user holds passes the check, makes its Save and
\* succeeds unless the database fails
C26_UnusedEmailPassesCheck ==
  ( /\ Finished(1, "RegisterUser")
    /\ RequestedEmail(1) \in ValidEmails
    /\ EmailHolders(call[1].preUsers, RequestedEmail(1)) = {}
    /\ ret[1].err # "db error" )
  => /\ call[1].writes = 1
     /\ ret[1].err \in {"nil", "ErrSaveUser"}

\* C27: a RegisterUser or CreateTask that reached its Save made it once; when
\* the Save failed the call returns ErrSaveUser (and no user), respectively
\* ErrCreateTask, and the stored users and tasks are those before the call
C27_FailedSaveReported ==
  /\ ( Finished(1, "RegisterUser") /\ call[1].writes > 0 )
     => /\ call[1].writes = 1
        /\ \/ ret[1].err = "nil" /\ ret[1].user.id \in DOMAIN users
           \/ /\ ret[1].err = "ErrSaveUser"
              /\ ret[1].user = NoUser
              /\ users = call[1].preUsers /\ tasks = call[1].preTasks
  /\ ( Finished(1, "CreateTask") /\ call[1].writes > 0 )
     => /\ call[1].writes = 1
        /\ \/ ret[1].err = "nil" /\ call[1].task.id \in DOMAIN tasks
           \/ /\ ret[1].err = "ErrCreateTask"
              /\ users = call[1].preUsers /\ tasks = call[1].preTasks

\* C28: an UpdateTask or DeleteTask naming a user other than the one the task
\* is stored under leaves the stored tasks as they were
C28_OthersTasksUntouched ==
  ( /\ Finished(1, "UpdateTask") \/ Finished(1, "DeleteTask")
    /\ call[1].taskId \in DOMAIN call[1].preTasks
    /\ call[1].preTasks[call[1].taskId].userId # call[1].id )
  => tasks = call[1].preTasks

\* C30: once a task handler whose path parameters were all valid has
\* returned, ValidateUUIDParams gave one identifier per parameter, the i-th
\* the parsed value of the i-th parameter, and the service was called with the
\* request's user id and task id
C30_ParsedIdsPassedOn ==
  \A p \in Procs :
    ( /\ pc[p] = "done"
      /\ call[p].handler # "none"
      /\ \A i \in 1..Len(call[p].params) : ParseUUID(call[p].params[i]).err = "nil" )
    => /\ Len(call[p].uuids) = Len(call[p].params)
       /\ \A i \in 1..Len(call[p].params) :
            call[p].uuids[i] = ParseUUID(call[p].params[i]).uuid
       /\ call[p].id = ParseUUID(call[p].params[1]).uuid
       /\ call[p].taskId = ParseUUID(call[p].params[2]).uuid

\* C29: whatever the interleaving of two repository calls, a FindTaskByID
\* that returned without error returned the task with the id it was given, a
\* FindByID the user with the id it was given, and the write of an Update or a
\* Delete went to the row with the id it was given
C29_EachCallItsOwnRecord ==
  \A p \in Procs :
    (pc[p] = "done" /\ ret[p].err = "nil") =>
      /\ call[p].op = "tsk.FindTaskByID" => ret[p].task.id = call[p].taskId
      /\ call[p].op = "usr.FindByID" => ret[p].user.id = call[p].id
      /\ call[p].op \in {"tsk.Update", "tsk.Delete"} => call[p].acted = call[p].taskId

====
